---- MODULE Spec2Model ----
(***************************************************************************)
(* Model of ffmpeghelpersv3.py: vidprop (metadata normaliser) and          *)
(* standardise_video (standardiser), with the collaborators they call:     *)
(* the filesystem (os.path), the probe and transcode capabilities          *)
(* (ffmpeg.probe, ffmpeg ... .run()), the wall clock and uuid4.            *)
(*                                                                         *)
(* Text is a sequence of one-character strings, so that basename,          *)
(* splitext, int(), float(), Fraction() and the f-strings are computed     *)
(* character by character.  A Python float is kept as the exact reduced    *)
(* rational it approximates.                                               *)
(***************************************************************************)
EXTENDS Integers, Sequences, FiniteSets, TLC

\* ------------------------------------------------------------------ bounds
\* longest list of stream descriptors a probed file holds
MaxStreams == 2
\* the wall clock runs from second 0 to second MaxClock
MaxClock == 1
\* uuid4() draws one of NumUuids values (of the 2^128 it really has)
NumUuids == 3

\* ------------------------------------------------------------ Python values
\* A Python value: t is its type, n/d its number (d = 1 for an int), s its text.
\* "missing" is a key the dictionary does not hold.
Missing == [t |-> "missing", n |-> 0, d |-> 1, s |-> <<>>]
None == [t |-> "None", n |-> 0, d |-> 1, s |-> <<>>]
PInt(k) == [t |-> "int", n |-> k, d |-> 1, s |-> <<>>]
PStr(txt) == [t |-> "str", n |-> 0, d |-> 1, s |-> txt]

Abs(k) == IF k < 0 THEN -k ELSE k

RECURSIVE GCD(_, _)
GCD(a, b) == IF b = 0 THEN a ELSE GCD(b, a % b)

\* the float with value num/den (den # 0), as a reduced fraction
PFloat(num, den) ==
    LET g == GCD(Abs(num), Abs(den))
        sg == IF den < 0 THEN -1 ELSE 1
    IN [t |-> "float", n |-> (sg * num) \div g, d |-> Abs(den) \div g, s |-> <<>>]

\* the outcome of a conversion: exc = "" and the value, or the exception raised
Ok(v) == [exc |-> "", val |-> v]
Err(e) == [exc |-> e, val |-> None]

\* Python truthiness of the values the code tests with `or` / `if`
Truthy(v) ==
    CASE v.t = "str" -> v.s # <<>>
      [] v.t \in {"int", "float"} -> v.n # 0
      [] OTHER -> FALSE

\* Python's ==  on the values above (numbers compare by value: 0 == 0.0)
PyEq(a, b) ==
    IF a.t \in {"int", "float"} /\ b.t \in {"int", "float"}
    THEN a.n * b.d = b.n * a.d
    ELSE a = b

\* dict.get(key, default) on a looked-up entry
Get(entry, default) == IF entry.t = "missing" THEN default ELSE entry

\* ------------------------------------------------------------------- text
DigitChars == {"0", "1", "2", "3", "4", "5", "6", "7", "8", "9"}

DigitVal(c) ==
    CASE c = "0" -> 0 [] c = "1" -> 1 [] c = "2" -> 2 [] c = "3" -> 3
      [] c = "4" -> 4 [] c = "5" -> 5 [] c = "6" -> 6 [] c = "7" -> 7
      [] c = "8" -> 8 [] c = "9" -> 9

DigitChar(k) == <<"0", "1", "2", "3", "4", "5", "6", "7", "8", "9">>[k + 1]

AllDigits(txt) == \A i \in 1..Len(txt) : txt[i] \in DigitChars

RECURSIVE NatOf(_)
NatOf(txt) ==
    IF txt = <<>> THEN 0
    ELSE NatOf(SubSeq(txt, 1, Len(txt) - 1)) * 10 + DigitVal(txt[Len(txt)])

RECURSIVE Pow10(_)
Pow10(k) == IF k = 0 THEN 1 ELSE 10 * Pow10(k - 1)

\* str(k) for k >= 0, as the f-strings format an int
RECURSIVE IntToText(_)
IntToText(k) ==
    IF k < 10 THEN <<DigitChar(k)>>
    ELSE IntToText(k \div 10) \o <<DigitChar(k % 10)>>

\* "%02d"
TwoDigits(k) == <<DigitChar((k \div 10) % 10), DigitChar(k % 10)>>

\* index of the last c in txt, 0 when there is none (str.rfind, 1-based)
LastIndexOf(txt, c) ==
    LET hits == {i \in 1..Len(txt) : txt[i] = c}
    IN IF hits = {} THEN 0 ELSE CHOOSE i \in hits : \A j \in hits : j <= i

\* index of the first c in txt, 0 when there is none
FirstIndexOf(txt, c) ==
    LET hits == {i \in 1..Len(txt) : txt[i] = c}
    IN IF hits = {} THEN 0 ELSE CHOOSE i \in hits : \A j \in hits : i <= j

\* an optional leading "-" split off: <<sign, rest>>
Signed(txt) ==
    IF txt # <<>> /\ txt[1] = "-" THEN <<-1, Tail(txt)>> ELSE <<1, txt>>

\* ------------------------------------------------------ Python conversions
\* int(v): the text forms modelled are an optional "-" and decimal digits
\* (no whitespace, "+", "_" or other bases occur in the inputs drawn below).
PyInt(v) ==
    CASE v.t = "int" -> Ok(v)
      [] v.t = "float" ->
            Ok(PInt((IF v.n < 0 THEN -1 ELSE 1) * (Abs(v.n) \div v.d)))
      [] v.t = "str" ->
            LET sr == Signed(v.s)
            IN IF sr[2] # <<>> /\ AllDigits(sr[2])
               THEN Ok(PInt(sr[1] * NatOf(sr[2])))
               ELSE Err("ValueError")
      [] OTHER -> Err("TypeError")

\* float(v): optional "-", digits with an optional "." fraction part
\* (no exponent, "inf" or "nan" occur in the inputs drawn below).
PyFloat(v) ==
    CASE v.t \in {"int", "float"} -> Ok(PFloat(v.n, v.d))
      [] v.t = "str" ->
            LET sr == Signed(v.s)
                body == sr[2]
                dot == FirstIndexOf(body, ".")
                ip == IF dot = 0 THEN body ELSE SubSeq(body, 1, dot - 1)
                fp == IF dot = 0 THEN <<>> ELSE SubSeq(body, dot + 1, Len(body))
            IN IF AllDigits(ip) /\ AllDigits(fp) /\ Len(ip) + Len(fp) > 0
               THEN Ok(PFloat(sr[1] * (NatOf(ip) * Pow10(Len(fp)) + NatOf(fp)),
                             Pow10(Len(fp))))
               ELSE Err("ValueError")
      [] OTHER -> Err("TypeError")

\* fractions.Fraction(v) followed by float(): "n", "n/d" or "n.f" with an
\* optional "-"; a zero denominator raises ZeroDivisionError, any other text
\* ValueError, None TypeError.
PyFraction(v) ==
    CASE v.t \in {"int", "float"} -> Ok(PFloat(v.n, v.d))
      [] v.t = "str" ->
            LET sr == Signed(v.s)
                body == sr[2]
                slash == FirstIndexOf(body, "/")
                num == IF slash = 0 THEN body ELSE SubSeq(body, 1, slash - 1)
                den == IF slash = 0 THEN <<>> ELSE SubSeq(body, slash + 1, Len(body))
            IN IF slash = 0
               THEN PyFloat(v)
               ELSE IF num # <<>> /\ AllDigits(num) /\ den # <<>> /\ AllDigits(den)
                    THEN IF NatOf(den) = 0
                         THEN Err("ZeroDivisionError")
                         ELSE Ok(PFloat(sr[1] * NatOf(num), NatOf(den)))
                    ELSE Err("ValueError")
      [] OTHER -> Err("TypeError")

\* round(x, 2) of a float, in hundredths (ties to even)
Round2(v) ==
    LET a == Abs(v.n) * 100
        q == a \div v.d
        r2 == 2 * (a % v.d)
        up == r2 > v.d \/ (r2 = v.d /\ q % 2 = 1)
    IN (IF v.n < 0 THEN -1 ELSE 1) * (IF up THEN q + 1 ELSE q)

\* ------------------------------------------------------------------ os.path
\* os.path.basename(path)
Basename(path) == SubSeq(path, LastIndexOf(path, "/") + 1, Len(path))

\* os.path.splitext(name)[0] for a name without "/": the extension starts at
\* the last dot, unless only dots precede it
SplitextRoot(name) ==
    LET dot == LastIndexOf(name, ".")
    IN IF dot > 0 /\ \E i \in 1..(dot - 1) : name[i] # "."
       THEN SubSeq(name, 1, dot - 1)
       ELSE name

\* ------------------------------------------------------------ text literals
T_NA == <<"N", "/", "A">>
T_abc == <<"a", "b", "c">>
T_640 == <<"6", "4", "0">>
T_12_5 == <<"1", "2", ".", "5">>
T_3_0 == <<"3", ".", "0">>
T_30000_1001 == <<"3", "0", "0", "0", "0", "/", "1", "0", "0", "1">>
T_0_1 == <<"0", "/", "1">>
T_30_0 == <<"3", "0", "/", "0">>
T_0_0 == <<"0", "/", "0">>
T_25 == <<"2", "5">>
T_25_1 == <<"2", "5", "/", "1">>
T_h264 == <<"h", "2", "6", "4">>
T_vp9 == <<"v", "p", "9">>
T_mp3 == <<"m", "p", "3">>
T_aac == <<"a", "a", "c">>
T_srt == <<"s", "r", "t">>
T_mp4 == <<"m", "p", "4">>
T_mkv == <<"m", "k", "v">>
T_u42 == <<"u", "4", "2">>
T_clip == <<"c", "l", "i", "p">>
\* the diagnostic text ffmpeg writes to stderr when it fails
T_diag == <<"b", "a", "d", " ", "i", "n", "p", "u", "t">>

\* ------------------------------------------------------------- filesystem
ClipPath == <<"i", "n", "/", "c", "l", "i", "p", ".", "m", "o", "v">>
DirPath == <<"i", "n">>
GonePath == <<"g", "o", "n", "e", ".", "m", "p", "4">>
Paths == {ClipPath, DirPath, GonePath}

\* ------------------------------------------------------ stream descriptors
\* One entry of probe["streams"]; every descriptor carries codec_type.
Desc(ct, w, h, c, r, d) ==
    [codec_type |-> ct, width |-> w, height |-> h, codec_name |-> c,
     avg_frame_rate |-> r, duration |-> d]

NoDesc == Desc("", Missing, Missing, Missing, Missing, Missing)

VideoBase ==
    Desc("video", PInt(1920), PInt(1080), PStr(T_h264), PStr(T_30000_1001), PStr(T_12_5))
VideoAlt ==
    Desc("video", PInt(640), PInt(480), PStr(T_vp9), PStr(T_25_1), PStr(T_3_0))
AudioMp3 == Desc("audio", Missing, Missing, PStr(T_mp3), PStr(T_0_0), PStr(T_12_5))
AudioAac == Desc("audio", Missing, Missing, PStr(T_aac), PStr(T_0_0), PStr(T_12_5))
Subtitle == Desc("subtitle", Missing, Missing, PStr(T_srt), PStr(T_0_0), Missing)

\* descriptors of well-formed files
PlainDescs == {VideoBase, VideoAlt, AudioMp3, AudioAac, Subtitle}

\* what a video descriptor's fields can hold: absent, empty text, non-numeric
\* text, numeric text, a number
WidthVals == {Missing, PStr(<<>>), PStr(T_NA), PStr(T_640), PInt(1920)}
HeightVals == {Missing, PStr(T_NA), PInt(1080)}
CodecVals == {Missing, PStr(<<>>), PStr(T_h264)}
RateVals ==
    {Missing, PStr(T_0_1), PStr(T_30_0), PStr(T_0_0), PStr(T_abc), PStr(T_25),
     PStr(T_30000_1001)}
DurationVals == {Missing, PStr(T_NA), PStr(T_12_5), PInt(12)}

\* how many fields of a video descriptor differ from VideoBase
Deviations(v) ==
    Cardinality({k \in {"width", "height", "codec_name", "avg_frame_rate", "duration"} :
                    v[k] # VideoBase[k]})

\* video descriptors with at most one irregular field, and those whose width
\* and frame rate are both irregular
RichVideoDescs ==
    {v \in {Desc("video", w, h, c, r, d) :
                w \in WidthVals, h \in HeightVals, c \in CodecVals,
                r \in RateVals, d \in DurationVals} :
        \/ Deviations(v) <= 1
        \/ /\ Deviations(v) = 2
           /\ v.width = PStr(T_NA)
           /\ v.avg_frame_rate \in {Missing, PStr(T_30_0)}}

RichDescs == RichVideoDescs \cup {AudioAac, Subtitle}

\* the descriptor lists a file can hold, in the probe's order
StreamLists(descs) == UNION {[1..k -> descs] : k \in 0..MaxStreams}

\* ---------------------------------------------------------------- callers
Callers == {"c1", "c2"}

Tags == {None, PStr(T_u42)}
Filetypes == {T_mp4, T_mkv}
FpsValues == {30, 24}

VARIABLES
    disk,   \* path -> [kind, streams, size]: the filesystem
    clock,  \* the wall clock, in seconds
    pc,     \* caller -> where its call stands
    args,   \* caller -> the arguments of its call
    loc,    \* caller -> the local variables of its call
    ret,    \* caller -> how its call ended
    req,    \* caller -> the transcode request its call issued
    calls   \* caller -> how many probes and transcodes its call issued

vars == <<disk, clock, pc, args, loc, ret, req, calls>>

NoArgs ==
    [op |-> "", video_path |-> <<>>, filetype |-> <<>>, width |-> 0, height |-> 0,
     fps |-> 0, user_ID |-> None]

NoKwargs == [k \in {} |-> ""]

NoLoc ==
    [probe |-> "none", streams |-> <<>>, vidprops |-> NoDesc, exists |-> FALSE,
     gone_at_size |-> FALSE, file_size |-> None, has_audio |-> FALSE,
     audioarg |-> NoKwargs, timestamp |-> <<>>, unique_ID |-> <<>>,
     output_path |-> <<>>, run |-> "none"]

NoMeta == [k \in {} |-> Missing]

NoRet == [kind |-> "none", exc |-> "", msg |-> <<>>, meta |-> NoMeta, path |-> <<>>]
Raise(e, m) == [kind |-> "raise", exc |-> e, msg |-> m, meta |-> NoMeta, path |-> <<>>]
ReturnMeta(m) == [kind |-> "return", exc |-> "", msg |-> <<>>, meta |-> m, path |-> <<>>]
ReturnPath(q) == [kind |-> "return", exc |-> "", msg |-> <<>>, meta |-> NoMeta, path |-> q]

NoReq ==
    [issued |-> FALSE, input |-> <<>>, filters |-> <<>>, output |-> <<>>,
     kwargs |-> NoKwargs]

NoCalls == [probe |-> 0, run |-> 0]

DiskOf(streams) ==
    [q \in Paths |->
        IF q = ClipPath THEN [kind |-> "file", streams |-> streams, size |-> 4096]
        ELSE IF q = DirPath THEN [kind |-> "dir", streams |-> <<>>, size |-> 0]
        ELSE [kind |-> "missing", streams |-> <<>>, size |-> 0]]

InitWith(contents) ==
    /\ disk \in {DiskOf(c) : c \in contents}
    /\ clock = 0
    /\ pc = [p \in Callers |-> "idle"]
    /\ args = [p \in Callers |-> NoArgs]
    /\ loc = [p \in Callers |-> NoLoc]
    /\ ret = [p \in Callers |-> NoRet]
    /\ req = [p \in Callers |-> NoReq]
    /\ calls = [p \in Callers |-> NoCalls]

\* ------------------------------------------------------------ collaborators
\* faulty variant of IsFile: os.path.exists in its place, true of a directory
IsFileOrDir(path) == disk[path].kind # "missing"

\* os.path.isfile / os.path.exists
IsFile(path) == disk[path].kind = "file"
Exists(path) == disk[path].kind # "missing"

\* what ffmpeg.probe(path) can do: fail with ffmpeg.Error (always, when there
\* is no file to read), or return the file's descriptors
ProbeOutcomes(path) ==
    {[ok |-> FALSE, streams |-> <<>>]}
    \cup (IF disk[path].kind = "file"
          THEN {[ok |-> TRUE, streams |-> disk[path].streams]}
          ELSE {})

\* datetime.now().strftime("%Y-%m-%d_%H-%M-%S") at second t of the day
Strftime(t) ==
    <<"2", "0", "2", "6", "-", "0", "1", "-", "0", "1", "_">> \o TwoDigits((t \div 3600) % 24) \o <<"-">>
        \o TwoDigits((t \div 60) % 60) \o <<"-">> \o TwoDigits(t % 60)

HexChars == <<"0", "1", "2", "3", "4", "5", "6", "7", "8", "9", "a", "b", "c", "d", "e", "f">>

RECURSIVE Pow16(_)
Pow16(k) == IF k = 0 THEN 1 ELSE 16 * Pow16(k - 1)

\* uuid4().hex[:8] of a uuid whose leading 32 bits are k
Hex8(k) == [i \in 1..8 |-> HexChars[((k \div Pow16(8 - i)) % 16) + 1]]

UuidDraws == 0..(NumUuids - 1)

\* ---------------------------------------------------------------- vidprop
NotFoundMsg(video_path) == video_path \o <<" ", "n", "o", "t", " ", "f", "o", "u", "n", "d">>
NoVideoMsg(video_path) == <<"N", "o", " ", "v", "i", "d", "e", "o", " ", "s", "t", "r", "e", "a", "m", " ", "f", "o", "u", "n", "d", " ", "i", "n", " ">> \o video_path

\* faulty variant of SelectVideo: the scan without its break keeps the last
SelectLastVideo(streams) ==
    LET hits == {i \in 1..Len(streams) : streams[i].codec_type = "video"}
    IN IF hits = {} THEN NoDesc
       ELSE streams[CHOOSE i \in hits : \A j \in hits : j <= i]

\* lines 39-45: the first descriptor of type "video", NoDesc when there is none
SelectVideo(streams) ==
    LET hits == {i \in 1..Len(streams) : streams[i].codec_type = "video"}
    IN IF hits = {} THEN NoDesc
       ELSE streams[CHOOSE i \in hits : \A j \in hits : i <= j]

\* lines 48-56: the dictionary literal, its entries evaluated in order; the
\* first conversion that raises ends the call with its exception
BuildMetadata(video_path, file_size, vidprops) ==
    LET base == Basename(video_path)
        w == PyInt(Get(vidprops.width, PInt(0)))
        h == PyInt(Get(vidprops.height, PInt(0)))
        c == Get(vidprops.codec_name, None)
        d == PyFloat(Get(vidprops.duration, PFloat(0, 1)))
    IN [exc |-> IF w.exc # "" THEN w.exc ELSE IF h.exc # "" THEN h.exc ELSE d.exc,
        meta |-> [filename |-> IF base # <<>> THEN PStr(base) ELSE None,
                  file_size |-> file_size,
                  width |-> w.val,
                  height |-> h.val,
                  codec_name |-> IF Truthy(c) THEN c ELSE None,
                  avg_frame_rate |-> PFloat(0, 1),
                  duration |-> d.val]]

\* lines 58-64: Fraction() then float(); any exception leaves the integer 0
ParseFps(vidprops) ==
    LET r == PyFraction(Get(vidprops.avg_frame_rate, None))
    IN IF r.exc = "" THEN r.val ELSE PInt(0)

\* vidprop(video_path) is called
VidpropCall(p) ==
    /\ pc[p] = "idle"
    /\ \E path \in Paths :
          args' = [args EXCEPT ![p] = [NoArgs EXCEPT !.op = "vidprop", !.video_path = path]]
    /\ pc' = [pc EXCEPT ![p] = "v_check"]
    /\ UNCHANGED <<disk, clock, loc, ret, req, calls>>

\* lines 33-35
VCheck(p) ==
    /\ pc[p] = "v_check"
    /\ IF IsFile(args[p].video_path)
       THEN /\ pc' = [pc EXCEPT ![p] = "v_probe"]
            /\ ret' = ret
       ELSE /\ pc' = [pc EXCEPT ![p] = "done"]
            /\ ret' = [ret EXCEPT ![p] =
                          Raise("FileNotFoundError", NotFoundMsg(args[p].video_path))]
    /\ UNCHANGED <<disk, clock, args, loc, req, calls>>

\* lines 37-45: the probe, then the scan for the first video stream
VProbe(p) ==
    /\ pc[p] = "v_probe"
    /\ calls' = [calls EXCEPT ![p].probe = @ + 1]
    /\ \E out \in ProbeOutcomes(args[p].video_path) :
          IF ~out.ok
          THEN /\ loc' = [loc EXCEPT ![p].probe = "error"]
               /\ ret' = [ret EXCEPT ![p] = Raise("ffmpeg.Error", <<>>)]
               /\ pc' = [pc EXCEPT ![p] = "done"]
          ELSE LET v == SelectVideo(out.streams)
               IN /\ loc' = [loc EXCEPT ![p].probe = "ok", ![p].streams = out.streams,
                                         ![p].vidprops = v]
                  /\ IF v = NoDesc
                     THEN /\ ret' = [ret EXCEPT ![p] =
                                        Raise("ValueError", NoVideoMsg(args[p].video_path))]
                          /\ pc' = [pc EXCEPT ![p] = "done"]
                     ELSE /\ ret' = ret
                          /\ pc' = [pc EXCEPT ![p] = "v_exists"]
    /\ UNCHANGED <<disk, clock, args, req>>

\* line 50, the condition: os.path.exists(video_path)
VExists(p) ==
    /\ pc[p] = "v_exists"
    /\ IF Exists(args[p].video_path)
       THEN /\ loc' = [loc EXCEPT ![p].exists = TRUE]
            /\ pc' = [pc EXCEPT ![p] = "v_getsize"]
       ELSE /\ loc' = [loc EXCEPT ![p].exists = FALSE, ![p].file_size = PInt(0),
                                  ![p].gone_at_size = TRUE]
            /\ pc' = [pc EXCEPT ![p] = "v_build"]
    /\ UNCHANGED <<disk, clock, args, ret, req, calls>>

\* line 50, the value: int(os.path.getsize(video_path)), which raises
\* FileNotFoundError when the file is no longer there
VGetsize(p) ==
    /\ pc[p] = "v_getsize"
    /\ IF Exists(args[p].video_path)
       THEN /\ loc' = [loc EXCEPT ![p].file_size = PInt(disk[args[p].video_path].size)]
            /\ ret' = ret
            /\ pc' = [pc EXCEPT ![p] = "v_build"]
       ELSE /\ loc' = [loc EXCEPT ![p].gone_at_size = TRUE]
            /\ ret' = [ret EXCEPT ![p] = Raise("FileNotFoundError", <<>>)]
            /\ pc' = [pc EXCEPT ![p] = "done"]
    /\ UNCHANGED <<disk, clock, args, req, calls>>

\* lines 51-66: the rest of the dictionary, the frame rate, the return
VBuild(p) ==
    /\ pc[p] = "v_build"
    /\ LET b == BuildMetadata(args[p].video_path, loc[p].file_size, loc[p].vidprops)
       IN ret' = [ret EXCEPT ![p] =
                     IF b.exc # "" THEN Raise(b.exc, <<>>)
                     ELSE ReturnMeta([b.meta EXCEPT
                                         !.avg_frame_rate = ParseFps(loc[p].vidprops)])]
    /\ pc' = [pc EXCEPT ![p] = "done"]
    /\ UNCHANGED <<disk, clock, args, loc, req, calls>>

\* ------------------------------------------------------ standardise_video
RuntimeMsg(video_path, details) ==
    <<"F", "F", "m", "p", "e", "g", " ", "f", "a", "i", "l", "e", "d", " ", "f", "o", "r", " ">> \o video_path
        \o <<".", " ", "E", "r", "r", "o", "r", " ", "d", "e", "t", "a", "i", "l", "s", ":", " ">> \o details

\* faulty variant of HasAudio: only the first descriptor is looked at
HasAudioFirstOnly(streams) == Len(streams) > 0 /\ streams[1].codec_type = "audio"

\* line 109
HasAudio(streams) == \E i \in 1..Len(streams) : streams[i].codec_type = "audio"

\* line 110
AudioArg(has_audio) == IF has_audio THEN ("acodec" :> "aac") ELSE NoKwargs

\* lines 113 and 133
ScaleArgs(width, height) ==
    <<"w", "=">> \o IntToText(width) \o <<":", "h", "=">> \o IntToText(height)
        \o <<":", "f", "o", "r", "c", "e", "_", "o", "r", "i", "g", "i", "n", "a", "l", "_", "a", "s", "p", "e", "c", "t", "_", "r", "a", "t", "i", "o", "=", "d", "e", "c", "r", "e", "a", "s", "e">>

\* lines 116 and 134
PadArgs(width, height) ==
    IntToText(width) \o <<":">> \o IntToText(height)
        \o <<":", "(", "o", "w", "-", "i", "w", ")", "/", "2", ":", "(", "o", "h", "-", "i", "h", ")", "/", "2">>

\* line 126
UserTag(user_ID) == IF Truthy(user_ID) THEN user_ID.s \o <<"_">> ELSE <<>>

\* faulty variant of OutputPath: the name without its disambiguator
OutputPathNoId(user_tag, filename_root, timestamp, unique_ID, filetype) ==
    user_tag \o filename_root \o <<"_", "s", "t", "d", "_", "a", "t", "_">> \o timestamp
        \o <<".">> \o filetype

\* line 128
OutputPath(user_tag, filename_root, timestamp, unique_ID, filetype) ==
    user_tag \o filename_root \o <<"_", "s", "t", "d", "_", "a", "t", "_">> \o timestamp \o <<"_">>
        \o unique_ID \o <<".">> \o filetype

\* line 135: the keyword arguments of .output()
OutputKwargs(audioarg) ==
    ("vcodec" :> "libx264") @@ audioarg @@ ("pix_fmt" :> "yuv420p")

\* lines 131-136: what is handed to ffmpeg
TranscodeRequest(video_path, width, height, audioarg, output_path) ==
    [issued |-> TRUE,
     input |-> video_path,
     filters |-> <<[name |-> "scale", args |-> ScaleArgs(width, height)],
                   [name |-> "pad", args |-> PadArgs(width, height)]>>,
     output |-> output_path,
     kwargs |-> OutputKwargs(audioarg)]

\* line 136: .run() is called with no arguments, so capture_stderr is False
RunCaptureStderr == FALSE

\* the stderr attribute of the ffmpeg.Error a failed run raises: the text
\* ffmpeg wrote when the run captured stderr, None when it did not
RunErrorStderr(capture_stderr, diag) == IF capture_stderr THEN PStr(diag) ELSE None

\* lines 139-143: the handler; e.stderr.decode on None raises AttributeError
HandleRunError(video_path, stderr) ==
    IF stderr.t = "None" THEN Raise("AttributeError", <<>>)
    ELSE Raise("RuntimeError", RuntimeMsg(video_path, stderr.s))

\* standardise_video(video_path, filetype, width, height, fps, user_ID) is called
StdCallOn(p, paths, filetypes, fpss, tags) ==
    /\ pc[p] = "idle"
    /\ \E path \in paths, ft \in filetypes, f \in fpss, tag \in tags :
          args' = [args EXCEPT ![p] =
                      [op |-> "standardise", video_path |-> path, filetype |-> ft,
                       width |-> 1280, height |-> 720, fps |-> f, user_ID |-> tag]]
    /\ pc' = [pc EXCEPT ![p] = "s_check"]
    /\ UNCHANGED <<disk, clock, loc, ret, req, calls>>

StdCall(p) == StdCallOn(p, Paths, {T_mp4}, FpsValues, Tags)

\* the same file standardised to either container, with or without a tag
ParCall(p) == StdCallOn(p, {ClipPath}, Filetypes, {30}, Tags)

\* lines 103-105
SCheck(p) ==
    /\ pc[p] = "s_check"
    /\ IF IsFile(args[p].video_path)
       THEN /\ pc' = [pc EXCEPT ![p] = "s_probe"]
            /\ ret' = ret
       ELSE /\ pc' = [pc EXCEPT ![p] = "done"]
            /\ ret' = [ret EXCEPT ![p] =
                          Raise("FileNotFoundError", NotFoundMsg(args[p].video_path))]
    /\ UNCHANGED <<disk, clock, args, loc, req, calls>>

\* faulty variant of SProbe: a failed probe is caught and read as "no audio"
SProbeAssumeNoAudio(p) ==
    /\ pc[p] = "s_probe"
    /\ calls' = [calls EXCEPT ![p].probe = @ + 1]
    /\ \E out \in ProbeOutcomes(args[p].video_path) :
          loc' = [loc EXCEPT ![p].probe = IF out.ok THEN "ok" ELSE "error",
                             ![p].streams = out.streams,
                             ![p].has_audio = HasAudio(out.streams),
                             ![p].audioarg = AudioArg(HasAudio(out.streams))]
    /\ pc' = [pc EXCEPT ![p] = "s_name"]
    /\ UNCHANGED <<disk, clock, args, ret, req>>

\* lines 107-110: ffmpeg.Error from the probe is not caught
SProbe(p) ==
    /\ pc[p] = "s_probe"
    /\ calls' = [calls EXCEPT ![p].probe = @ + 1]
    /\ \E out \in ProbeOutcomes(args[p].video_path) :
          IF ~out.ok
          THEN /\ loc' = [loc EXCEPT ![p].probe = "error"]
               /\ ret' = [ret EXCEPT ![p] = Raise("ffmpeg.Error", <<>>)]
               /\ pc' = [pc EXCEPT ![p] = "done"]
          ELSE /\ loc' = [loc EXCEPT ![p].probe = "ok", ![p].streams = out.streams,
                                     ![p].has_audio = HasAudio(out.streams),
                                     ![p].audioarg = AudioArg(HasAudio(out.streams))]
               /\ ret' = ret
               /\ pc' = [pc EXCEPT ![p] = "s_name"]
    /\ UNCHANGED <<disk, clock, args, req>>

\* lines 112-128: the clock is read and the disambiguator drawn
SName(p) ==
    /\ pc[p] = "s_name"
    /\ \E k \in UuidDraws :
          LET ts == Strftime(clock)
              uid == Hex8(k)
              root == SplitextRoot(Basename(args[p].video_path))
          IN loc' = [loc EXCEPT ![p].timestamp = ts, ![p].unique_ID = uid,
                                ![p].output_path =
                                    OutputPath(UserTag(args[p].user_ID), root, ts, uid,
                                               args[p].filetype)]
    /\ pc' = [pc EXCEPT ![p] = "s_run"]
    /\ UNCHANGED <<disk, clock, args, ret, req, calls>>

\* lines 130-145: the transcode, which succeeds or fails
SRun(p) ==
    /\ pc[p] = "s_run"
    /\ req' = [req EXCEPT ![p] =
                  TranscodeRequest(args[p].video_path, args[p].width, args[p].height,
                                   loc[p].audioarg, loc[p].output_path)]
    /\ calls' = [calls EXCEPT ![p].run = @ + 1]
    /\ \E ok \in BOOLEAN :
          IF ok
          THEN /\ loc' = [loc EXCEPT ![p].run = "ok"]
               /\ ret' = [ret EXCEPT ![p] = ReturnPath(loc[p].output_path)]
          ELSE /\ loc' = [loc EXCEPT ![p].run = "failed"]
               /\ ret' = [ret EXCEPT ![p] =
                             HandleRunError(args[p].video_path,
                                            RunErrorStderr(RunCaptureStderr, T_diag))]
    /\ pc' = [pc EXCEPT ![p] = "done"]
    /\ UNCHANGED <<disk, clock, args>>

\* ------------------------------------------------------------ environment
\* the caller takes the result; the call's working data is discarded
Return(p) ==
    /\ pc[p] = "done"
    /\ pc' = [pc EXCEPT ![p] = "idle"]
    /\ args' = [args EXCEPT ![p] = NoArgs]
    /\ loc' = [loc EXCEPT ![p] = NoLoc]
    /\ ret' = [ret EXCEPT ![p] = NoRet]
    /\ req' = [req EXCEPT ![p] = NoReq]
    /\ calls' = [calls EXCEPT ![p] = NoCalls]
    /\ UNCHANGED <<disk, clock>>

\* a second passes
Tick ==
    /\ clock < MaxClock
    /\ clock' = clock + 1
    /\ UNCHANGED <<disk, pc, args, loc, ret, req, calls>>

\* another process deletes a file
Delete ==
    /\ \E q \in Paths :
          /\ disk[q].kind = "file"
          /\ disk' = [disk EXCEPT ![q].kind = "missing"]
    /\ UNCHANGED <<clock, pc, args, loc, ret, req, calls>>

\* -------------------------------------------------------- specifications
\* one caller, either operation, on well-formed files
Init == InitWith(StreamLists(PlainDescs))

Next ==
    \/ \E p \in {"c1"} :
          \/ VidpropCall(p)
          \/ VCheck(p)
          \/ VProbe(p)
          \/ VExists(p)
          \/ VGetsize(p)
          \/ VBuild(p)
          \/ StdCall(p)
          \/ SCheck(p)
          \/ SProbe(p)
          \/ SName(p)
          \/ SRun(p)
          \/ Return(p)
    \/ Tick
    \/ Delete

Spec == Init /\ [][Next]_vars

\* one caller of vidprop, on files with irregular descriptors
InitNorm == InitWith(StreamLists(RichDescs))

NextNorm ==
    \/ \E p \in {"c1"} :
          \/ VidpropCall(p)
          \/ VCheck(p)
          \/ VProbe(p)
          \/ VExists(p)
          \/ VGetsize(p)
          \/ VBuild(p)
          \/ Return(p)
    \/ Delete

SpecNorm == InitNorm /\ [][NextNorm]_vars

\* two callers of standardise_video on the same file, interleaved
InitPar == InitWith({<<VideoBase, AudioMp3>>})

NextPar ==
    \/ \E p \in Callers :
          \/ ParCall(p)
          \/ SCheck(p)
          \/ SProbe(p)
          \/ SName(p)
          \/ SRun(p)
          \/ Return(p)
    \/ Tick

SpecPar == InitPar /\ [][NextPar]_vars

\* ------------------------------------------------------------------ claims
MetadataKeys ==
    {"filename", "file_size", "width", "height", "codec_name", "avg_frame_rate",
     "duration"}

\* text a occurs in text b
IsInfix(a, b) ==
    \E i \in 0..(Len(b) - Len(a)) : SubSeq(b, i + 1, i + Len(a)) = a

\* the first descriptor of type "video" the file at path holds, in probe order
FirstVideoOnDisk(path) ==
    LET st == disk[path].streams
    IN st[CHOOSE i \in 1..Len(st) :
             /\ st[i].codec_type = "video"
             /\ \A j \in 1..(i - 1) : st[j].codec_type # "video"]

NoVideoOnDisk(path) ==
    \A i \in 1..Len(disk[path].streams) : disk[path].streams[i].codec_type # "video"

\* a vidprop call has ended after its probe succeeded and returned a video stream
NormalisedVideo(p) ==
    /\ pc[p] = "done"
    /\ args[p].op = "vidprop"
    /\ loc[p].probe = "ok"
    /\ ~NoVideoOnDisk(args[p].video_path)

\* C1: a call of vidprop or standardise_video whose path is not an existing
\* file when the call checks it ends at that check with FileNotFoundError,
\* having issued no probe and no transcode, and issues none afterwards.
C1_NotFoundBeforeProbe ==
    [][\A p \in Callers :
          /\ ( /\ pc[p] \in {"v_check", "s_check"}
               /\ pc'[p] # pc[p]
               /\ disk[args[p].video_path].kind # "file" )
             => /\ pc'[p] = "done"
                /\ ret'[p].kind = "raise"
                /\ ret'[p].exc = "FileNotFoundError"
                /\ calls'[p] = NoCalls
                /\ ~req'[p].issued
          /\ (pc[p] = "done" /\ pc'[p] = "done")
             => (calls'[p] = calls[p] /\ req'[p] = req[p] /\ ret'[p] = ret[p])]_vars

\* standardise_video has ended with FileNotFoundError on a directory's path
\* without probing or transcoding
C1_Witness ==
    \E p \in Callers :
        /\ pc[p] = "done"
        /\ args[p].op = "standardise"
        /\ disk[args[p].video_path].kind = "dir"
        /\ ret[p].exc = "FileNotFoundError"
        /\ calls[p] = NoCalls

\* C2: when vidprop's probe of an existing file succeeds with a video stream,
\* the call returns a record with all seven keys, width and height integers
\* (0 when absent or non-numeric), duration a float (0.0 when absent or
\* non-numeric), codec_name the source text or null.
C2_AlwaysCompleteRecord ==
    \A p \in Callers :
        (NormalisedVideo(p) /\ disk[args[p].video_path].kind = "file")
        => /\ ret[p].kind = "return"
           /\ DOMAIN ret[p].meta = MetadataKeys
           /\ ret[p].meta.width.t = "int"
           /\ ret[p].meta.height.t = "int"
           /\ ret[p].meta.duration.t = "float"
           /\ LET v == FirstVideoOnDisk(args[p].video_path)
              IN /\ PyInt(v.width).exc # "" => ret[p].meta.width = PInt(0)
                 /\ PyInt(v.height).exc # "" => ret[p].meta.height = PInt(0)
                 /\ PyFloat(v.duration).exc # "" => ret[p].meta.duration = PFloat(0, 1)
                 /\ ret[p].meta.codec_name \in {v.codec_name, None}

\* C3: when the file is gone by the time vidprop reads its size, after a
\* probe that succeeded with a video stream, the call returns a record whose
\* file_size is 0.
C3_VanishedFileSizeZero ==
    \A p \in Callers :
        (NormalisedVideo(p) /\ loc[p].gone_at_size)
        => /\ ret[p].kind = "return"
           /\ PyEq(ret[p].meta.file_size, PInt(0))

\* two calls of standardise_video have returned for the same path, tag and
\* container, having read the same second
SameSecondPair(p, q) ==
    /\ p # q
    /\ pc[p] = "done" /\ pc[q] = "done"
    /\ ret[p].kind = "return" /\ ret[q].kind = "return"
    /\ args[p].video_path = args[q].video_path
    /\ args[p].user_ID = args[q].user_ID
    /\ args[p].filetype = args[q].filetype
    /\ loc[p].timestamp = loc[q].timestamp

\* C4 as stated: two calls of standardise_video on the same path, tag and
\* container that read the same second return different output paths.
C4_AlwaysDistinct ==
    \A p, q \in Callers : SameSecondPair(p, q) => ret[p].path # ret[q].path

\* C4, amended: the two output paths differ exactly when the two calls drew
\* different disambiguators; with the same draw they are the same path.
C4_DistinctIffDrawsDiffer ==
    \A p, q \in Callers :
        SameSecondPair(p, q)
        => (ret[p].path # ret[q].path <=> loc[p].unique_ID # loc[q].unique_ID)

\* two such calls drew different disambiguators and returned different paths
C4_Witness ==
    \E p, q \in Callers :
        /\ SameSecondPair(p, q)
        /\ args[p].user_ID = PStr(T_u42)
        /\ args[p].filetype = T_mp4
        /\ loc[p].unique_ID # loc[q].unique_ID
        /\ ret[p].path # ret[q].path
        /\ \A c \in {p, q} :
              /\ Len(ret[c].path) = 48
              /\ SubSeq(ret[c].path, 1, 16)
                    = T_u42 \o <<"_">> \o T_clip \o <<"_", "s", "t", "d", "_", "a", "t", "_">>
              /\ SubSeq(ret[c].path, 37, 44) = loc[c].unique_ID

\* C5: when the transcode fails, standardise_video ends with RuntimeError
\* whose message carries ffmpeg's stderr text, and returns no output path.
C5_TranscodeFailureIsRuntimeError ==
    \A p \in Callers :
        loc[p].run = "failed"
        => /\ ret[p].kind = "raise"
           /\ ret[p].exc = "RuntimeError"
           /\ IsInfix(T_diag, ret[p].msg)
           /\ ret[p].path = <<>>

\* the frame rate a transcode request asks for: the "r" output option or an
\* "fps" filter, <<>> when it asks for none
RequestedFrameRate(r) ==
    IF "r" \in DOMAIN r.kwargs THEN r.kwargs["r"]
    ELSE IF \E i \in 1..Len(r.filters) : r.filters[i].name = "fps"
         THEN r.filters[CHOOSE i \in 1..Len(r.filters) : r.filters[i].name = "fps"].args
         ELSE <<>>

\* C6: every transcode request standardise_video issues sets the output frame
\* rate to the call's fps.
C6_RequestSetsFrameRate ==
    \A p \in Callers :
        req[p].issued => RequestedFrameRate(req[p]) = IntToText(args[p].fps)

\* C7: in standardise_video a failed probe ends the call with the probe's
\* error, with no transcode requested and nothing returned; a transcode is
\* requested only after the call's one probe succeeded on a file the call
\* found; a call issues at most one probe and one transcode.
C7_ProbeFailureAborts ==
    \A p \in Callers :
        args[p].op = "standardise"
        => /\ calls[p].probe <= 1
           /\ calls[p].run <= 1
           /\ loc[p].probe = "error"
              => /\ pc[p] = "done"
                 /\ ret[p].kind = "raise"
                 /\ ret[p].exc = "ffmpeg.Error"
                 /\ calls[p].run = 0
                 /\ ~req[p].issued
           /\ (req[p].issued \/ calls[p].run > 0)
              => /\ loc[p].probe = "ok"
                 /\ calls[p].probe = 1
           /\ pc[p] \in {"s_name", "s_run"} => loc[p].probe = "ok"

\* the probe of a file that holds an audio stream failed, and the call ended
C7_Witness ==
    \E p \in Callers :
        /\ args[p].op = "standardise"
        /\ loc[p].probe = "error"
        /\ pc[p] = "done"
        /\ disk[args[p].video_path].kind = "file"
        /\ \E i \in 1..Len(disk[args[p].video_path].streams) :
              disk[args[p].video_path].streams[i].codec_type = "audio"

\* C8: a transcode request carries acodec = aac exactly when the probed file
\* holds a descriptor of type "audio", whatever its codec and position, and
\* no acodec otherwise; vcodec is libx264 and pix_fmt yuv420p in every request.
C8_AacIffAudio ==
    \A p \in Callers :
        req[p].issued
        => LET st == disk[args[p].video_path].streams
               k == req[p].kwargs
           IN /\ ("acodec" \in DOMAIN k) <=> (\E i \in 1..Len(st) : st[i].codec_type = "audio")
              /\ "acodec" \in DOMAIN k => k["acodec"] = "aac"
              /\ DOMAIN k \subseteq {"vcodec", "acodec", "pix_fmt"}
              /\ k["vcodec"] = "libx264"
              /\ k["pix_fmt"] = "yuv420p"

\* a request for a file whose only audio stream is mp3, listed second
C8_Witness ==
    \E p \in Callers :
        /\ req[p].issued
        /\ disk[args[p].video_path].streams = <<VideoBase, AudioMp3>>
        /\ req[p].kwargs["acodec"] = "aac"

\* C9: after a successful probe, vidprop raises ValueError (no video stream)
\* and returns no record when no descriptor has type "video"; otherwise the
\* descriptor it works from, and any record it returns, is the first
\* descriptor of type "video" in the probe's order.
C9_FirstVideoOrValueError ==
    \A p \in Callers :
        (args[p].op = "vidprop" /\ loc[p].probe = "ok")
        => IF NoVideoOnDisk(args[p].video_path)
           THEN /\ pc[p] = "done"
                /\ ret[p] = Raise("ValueError", NoVideoMsg(args[p].video_path))
           ELSE LET v == FirstVideoOnDisk(args[p].video_path)
                IN /\ loc[p].vidprops = v
                   /\ ret[p].kind = "return"
                      => ret[p].meta =
                            [BuildMetadata(args[p].video_path, loc[p].file_size, v).meta
                                EXCEPT !.avg_frame_rate = ParseFps(v)]

\* a record was returned for a file holding two different video streams
C9_Witness ==
    \E p \in Callers :
        /\ NormalisedVideo(p)
        /\ ret[p].kind = "return"
        /\ LET st == disk[args[p].video_path].streams
           IN /\ Len(st) = 2
              /\ st[1].codec_type = "video" /\ st[2].codec_type = "video"
              /\ st[1].avg_frame_rate # st[2].avg_frame_rate
              /\ ret[p].meta.avg_frame_rate = ParseFps(st[1])
              /\ ret[p].meta.avg_frame_rate # ParseFps(st[2])

\* C10: when vidprop's probe of an existing file succeeds with a video stream
\* whose avg_frame_rate is absent, has a zero denominator or is malformed,
\* the call returns a record with avg_frame_rate equal to 0.0; a record
\* returned for a well-formed rate holds the decimal value of n/d.
C10_FrameRateNeverFatal ==
    \A p \in Callers :
        (NormalisedVideo(p) /\ disk[args[p].video_path].kind = "file")
        => LET r == PyFraction(Get(FirstVideoOnDisk(args[p].video_path).avg_frame_rate, None))
           IN /\ r.exc # ""
                 => /\ ret[p].kind = "return"
                    /\ PyEq(ret[p].meta.avg_frame_rate, PFloat(0, 1))
              /\ (r.exc = "" /\ ret[p].kind = "return")
                 => /\ ret[p].meta.avg_frame_rate = r.val
                    /\ FirstVideoOnDisk(args[p].video_path).avg_frame_rate = PStr(T_30000_1001)
                       => Round2(ret[p].meta.avg_frame_rate) = 2997
====
